---- MODULE Spec2Model ----
(***************************************************************************)
(* State machine of the dashboard component frontend/src/App.jsx:          *)
(* the three React state cells (apiStatus, liveEvents, hotspots), the      *)
(* three mount effects (API status, event polling, hotspot loading with    *)
(* fallback), the promise continuations of every fetch, and the render     *)
(* of the sidebar and of the heatmap layer as functions of the state.      *)
(***************************************************************************)
EXTENDS Integers, Sequences, FiniteSets, TLC

(* ------------------------------ bounds --------------------------------- *)
\* number of interval firings explored after the mount
MaxTicks == 1
\* length of the longest hotspot list a response carries
MaxHotspots == 2
\* length of the longest event list a response carries (more than SliceEnd)
MaxEvents == 11

(* ------------------------- program constants --------------------------- *)
\* setInterval(fetchEvents, 5000)
PollIntervalMs == 5000
\* liveEvents.slice(0, 10)
SliceEnd == 10

VARIABLES
  phase,        \* "initial" (rendered, effects not yet run) | "mounted" | "unmounted"
  apiStatus,    \* useState('Connecting...')
  liveEvents,   \* useState([])
  hotspots,     \* useState([])
  statusPc,     \* position of the promise chain of effect 1
  interval,     \* TRUE while the setInterval timer is registered
  now,          \* milliseconds since the mount
  nextFire,     \* time at which the interval timer fires next
  evIssued,     \* number of requests sent to /events
  evPoll,       \* per /events request: position of its promise chain, value it set
  lastEvResp,   \* the /events response handled last (history)
  hpc,          \* position of fetchHotspots
  hpromise,     \* state of the promise returned by fetchHotspots()
  simRequests,  \* number of requests sent to /hotspots
  realRequests, \* number of requests sent to /hotspots/real
  simResp,      \* the /hotspots response as far as received (history)
  realResp      \* the /hotspots/real response as far as received (history)

vars == <<phase, apiStatus, liveEvents, hotspots, statusPc, interval, now,
          nextFire, evIssued, evPoll, lastEvResp, hpc, hpromise, simRequests,
          realRequests, simResp, realResp>>

stateCells == <<apiStatus, liveEvents, hotspots>>
statusVars == <<statusPc>>
timerVars == <<interval, now, nextFire>>
eventVars == <<evIssued, evPoll, lastEvResp>>
hotspotVars == <<hpc, hpromise, simRequests, realRequests, simResp, realResp>>

Min(a, b) == IF a < b THEN a ELSE b

(* --------------------------- response values --------------------------- *)
\* A JSON array field of a response body: absent (undefined, falsy) or an array.
Absent == [defined |-> FALSE, items |-> <<>>]
Array(s) == [defined |-> TRUE, items |-> s]

\* An element of a hotspots array: an object with the three fields, or null.
Cell(lat, lon, p) ==
  [isObject |-> TRUE, latitude |-> lat, longitude |-> lon, prediction_value |-> p]
NullElem ==
  [isObject |-> FALSE, latitude |-> 0, longitude |-> 0, prediction_value |-> 0]

\* Coordinates in millidegrees, prediction values in percent.
SimGrid(n) == [i \in 1..n |-> Cell(-13000 - i, 46000 + i, 10 * i)]
RealGrid(n) == [i \in 1..n |-> Cell(-12000 - i, 47000 + i, 10 * i + 5)]

HotspotArrays(src) ==
  LET grid == IF src = "sim" THEN SimGrid(MaxHotspots) ELSE RealGrid(MaxHotspots)
  IN  { Absent, Array(<<>>), Array(grid), Array(<<grid[1], NullElem>>) }

\* What a hotspot request has delivered so far.
\*   net:  "none" (not settled) | "reject" (fetch rejected) | "http" (response.ok false) | "ok"
\*   json: "none" (not settled) | "throw" (response.json() rejected) | "null" (body is null) | "obj"
NoResp == [net |-> "none", json |-> "none", status |-> "none", list |-> Absent]
NetResp(n) == [NoResp EXCEPT !.net = n]
JsonResp(j) == [NoResp EXCEPT !.net = "ok", !.json = j]
BodyResp(st, l) == [net |-> "ok", json |-> "obj", status |-> st, list |-> l]

HotspotBodies(src) ==
  {JsonResp("throw"), JsonResp("null")} \cup
  {BodyResp(st, l) : st \in {"success", "error"}, l \in HotspotArrays(src)}

\* Events, most recent first: the event with the highest id leads.
Evt(i) == [id |-> i, tag_id |-> "SHK001", event_trigger |-> "feeding"]
Evts(n) == [i \in 1..n |-> Evt(n + 1 - i)]

EventArrays ==
  {Absent, Array(<<>>), Array(Evts(1)), Array(Evts(MaxEvents))}

EventBodies ==
  {JsonResp("throw"), JsonResp("null")} \cup
  {BodyResp("success", l) : l \in EventArrays} \cup
  {BodyResp("error", l) : l \in {Absent, Array(Evts(1))}}

\* return { status: 'error', events: [] }
HttpErrorData == BodyResp("error", Array(<<>>))

(* ---------------------------- pure functions --------------------------- *)
\* Variant: the else branch leaves the displayed events as they are.
EventsFromDataKeep(data) ==
  IF data.status = "success" /\ data.list.defined THEN data.list.items ELSE liveEvents

\* data.status === 'success' && data.events ? data.events : []
EventsFromData(data) ==
  IF data.status = "success" /\ data.list.defined THEN data.list.items ELSE <<>>

\* The value the promise chain of one fetchEvents call passes to setLiveEvents:
\* .catch for a rejected fetch, a rejected response.json() or a null body
\* (data.status throws), the substituted error object for !response.ok,
\* the second .then otherwise.
EventsSettled(r) ==
  IF r.net = "reject" \/ r.json \in {"throw", "null"} THEN <<>>
  ELSE IF r.net = "http" THEN EventsFromData(HttpErrorData)
  ELSE EventsFromData(r)

\* Variant: || in place of &&.
HotspotsAcceptedEither(data) == data.status = "success" \/ data.list.defined

\* data.status === 'success' && data.hotspots
HotspotsAccepted(data) == data.status = "success" /\ data.list.defined

\* h => [h.latitude, h.longitude, h.prediction_value] throws on a null element
MapThrows(items) == \E i \in 1..Len(items) : ~items[i].isObject

\* Variant: longitude and latitude exchanged.
FormatHotspotsSwapped(items) ==
  [i \in 1..Len(items) |->
     <<items[i].longitude, items[i].latitude, items[i].prediction_value>>]

\* data.hotspots.map(h => [h.latitude, h.longitude, h.prediction_value])
FormatHotspots(items) ==
  [i \in 1..Len(items) |->
     <<items[i].latitude, items[i].longitude, items[i].prediction_value>>]

\* Variant: the end index is included.
SliceInclusive(s, end) == [i \in 1..Min(end + 1, Len(s)) |-> s[i]]

\* array.slice(0, end)
Slice(s, end) == [i \in 1..Min(end, Len(s)) |-> s[i]]

\* <div key={evt.id} className="event-card"> Tag {evt.tag_id}: {evt.event_trigger}
EventCard(evt) == [key |-> evt.id, tag |-> evt.tag_id, text |-> evt.event_trigger]

\* The "Live Tag Events" section rendered from a liveEvents value.
Sidebar(events) ==
  IF Len(events) = 0
    THEN [placeholder |-> TRUE, cards |-> <<>>]
    ELSE [placeholder |-> FALSE,
          cards |-> [i \in 1..Len(Slice(events, SliceEnd)) |->
                       EventCard(Slice(events, SliceEnd)[i])]]

\* {hotspots.length > 0 && <HeatmapLayer points={hotspots} .../>}
HeatmapRendered(points) == Len(points) > 0

(* ------------------------------ the state ------------------------------ *)
PollIds == 1..(MaxTicks + 1)
NoPoll == [pc |-> "none", applied |-> <<>>]
Fetching == [pc |-> "fetching", applied |-> <<>>]
Parsing == [pc |-> "parsing", applied |-> <<>>]
Done(v) == [pc |-> "done", applied |-> v]

Init ==
  /\ phase = "initial"
  /\ apiStatus = "Connecting..."
  /\ liveEvents = <<>>
  /\ hotspots = <<>>
  /\ statusPc = "idle"
  /\ interval = FALSE
  /\ now = 0
  /\ nextFire = 0
  /\ evIssued = 0
  /\ evPoll = [k \in PollIds |-> NoPoll]
  /\ lastEvResp = NoResp
  /\ hpc = "idle"
  /\ hpromise = "none"
  /\ simRequests = 0
  /\ realRequests = 0
  /\ simResp = NoResp
  /\ realResp = NoResp

\* The three state setters: each writes its own cell only.
SetApiStatus(v) == apiStatus' = v /\ UNCHANGED <<liveEvents, hotspots>>
\* Variant: the events setter also writes the hotspots cell.
SetLiveEventsShared(v) == liveEvents' = v /\ hotspots' = v /\ UNCHANGED apiStatus
SetLiveEvents(v) == liveEvents' = v /\ UNCHANGED <<apiStatus, hotspots>>
SetHotspots(v) == hotspots' = v /\ UNCHANGED <<apiStatus, liveEvents>>

\* fetch('http://127.0.0.1:8000/events') and the registration of its chain
FetchEvents ==
  /\ evIssued' = evIssued + 1
  /\ evPoll' = [evPoll EXCEPT ![evIssued + 1] = Fetching]
  /\ UNCHANGED lastEvResp

(* ------------------------- mount, timer, unmount ----------------------- *)
\* The three effects run once after the first render.
Mount ==
  /\ phase = "initial"
  /\ phase' = "mounted"
  /\ statusPc' = "fetching"
  /\ FetchEvents
  /\ interval' = TRUE
  /\ nextFire' = now + PollIntervalMs
  /\ hpc' = "awaitSim"
  /\ hpromise' = "pending"
  /\ simRequests' = simRequests + 1
  /\ UNCHANGED <<stateCells, now, realRequests, simResp, realResp>>

\* The interval timer fires: fetchEvents runs again.
Tick ==
  /\ interval
  /\ now = nextFire
  /\ evIssued < MaxTicks + 1
  /\ FetchEvents
  /\ nextFire' = nextFire + PollIntervalMs
  /\ UNCHANGED <<phase, stateCells, statusVars, interval, now, hotspotVars>>

\* Time passes, one polling period at a time; a timer that is due fires first.
Advance ==
  /\ phase # "initial"
  /\ ~(interval /\ now = nextFire)
  /\ now + PollIntervalMs <= (MaxTicks + 1) * PollIntervalMs
  /\ now' = now + PollIntervalMs
  /\ UNCHANGED <<phase, stateCells, statusVars, interval, nextFire, eventVars,
                 hotspotVars>>

\* Variant: the effect returns no cleanup, the timer stays registered.
UnmountKeepsTimer ==
  /\ phase = "mounted"
  /\ phase' = "unmounted"
  /\ UNCHANGED <<stateCells, statusVars, timerVars, eventVars, hotspotVars>>

\* The cleanup of effect 2: clearInterval(interval).
Unmount ==
  /\ phase = "mounted"
  /\ phase' = "unmounted"
  /\ interval' = FALSE
  /\ UNCHANGED <<stateCells, statusVars, now, nextFire, eventVars, hotspotVars>>

(* --------------------------- effect 1: API status ---------------------- *)
\* fetch('/') settles: a rejection goes to .catch, any response to response.json()
StatusFetchSettles ==
  /\ statusPc = "fetching"
  /\ \E net \in {"reject", "ok"} :
       IF net = "reject"
         THEN statusPc' = "done" /\ SetApiStatus("Error: Could not connect to API")
         ELSE statusPc' = "parsing" /\ UNCHANGED stateCells
  /\ UNCHANGED <<phase, timerVars, eventVars, hotspotVars>>

\* response.json() settles: setApiStatus(data.status || 'Connected'), or .catch
StatusJsonSettles ==
  /\ statusPc = "parsing"
  /\ statusPc' = "done"
  /\ \E body \in {"throw", "null", "status", "nostatus"} :
       IF body \in {"throw", "null"}
         THEN SetApiStatus("Error: Could not connect to API")
         ELSE IF body = "status"
           THEN SetApiStatus("online")
           ELSE SetApiStatus("Connected")
  /\ UNCHANGED <<phase, timerVars, eventVars, hotspotVars>>

(* --------------------------- effect 2: event polling ------------------- *)
\* fetch('/events') of poll k settles.
EventsFetchSettles(k) ==
  /\ evPoll[k].pc = "fetching"
  /\ \E net \in {"reject", "http", "ok"} :
       IF net = "ok"
         THEN /\ evPoll' = [evPoll EXCEPT ![k] = Parsing]
              /\ UNCHANGED <<stateCells, lastEvResp>>
         ELSE /\ evPoll' = [evPoll EXCEPT ![k] = Done(EventsSettled(NetResp(net)))]
              /\ lastEvResp' = NetResp(net)
              /\ SetLiveEvents(EventsSettled(NetResp(net)))
  /\ UNCHANGED <<phase, statusVars, timerVars, evIssued, hotspotVars>>

\* response.json() of poll k settles.
EventsJsonSettles(k) ==
  /\ evPoll[k].pc = "parsing"
  /\ \E r \in EventBodies :
       /\ evPoll' = [evPoll EXCEPT ![k] = Done(EventsSettled(r))]
       /\ lastEvResp' = r
       /\ SetLiveEvents(EventsSettled(r))
  /\ UNCHANGED <<phase, statusVars, timerVars, evIssued, hotspotVars>>

(* --------------------------- effect 3: hotspots ------------------------ *)
\* catch (error) { setHotspots([]) }: the async function then completes normally.
HotspotsCatch ==
  /\ SetHotspots(<<>>)
  /\ hpc' = "done"
  /\ hpromise' = "fulfilled"
  /\ UNCHANGED realRequests

\* Variant: the return is missing, control reaches the fallback request.
FallThroughAfterSimSuccess ==
  /\ hpc' = "awaitReal"
  /\ realRequests' = realRequests + 1
  /\ UNCHANGED hpromise

\* setHotspots(formattedHotspots); return;
ReturnAfterSimSuccess ==
  /\ hpc' = "done"
  /\ hpromise' = "fulfilled"
  /\ UNCHANGED realRequests

\* const realResponse = await fetch('http://127.0.0.1:8000/hotspots/real')
FallbackToReal ==
  /\ hpc' = "awaitReal"
  /\ realRequests' = realRequests + 1
  /\ UNCHANGED <<stateCells, hpromise>>

\* await fetch('/hotspots') settles.
SimFetchSettles ==
  /\ hpc = "awaitSim"
  /\ \E net \in {"reject", "http", "ok"} :
       /\ simResp' = NetResp(net)
       /\ CASE net = "reject" -> HotspotsCatch
            [] net = "http" -> FallbackToReal
            [] net = "ok" -> /\ hpc' = "awaitSimJson"
                             /\ UNCHANGED <<stateCells, hpromise, realRequests>>
  /\ UNCHANGED <<phase, statusVars, timerVars, eventVars, simRequests, realResp>>

\* await response.json() of the simulated response settles.
SimJsonSettles ==
  /\ hpc = "awaitSimJson"
  /\ \E r \in HotspotBodies("sim") :
       /\ simResp' = r
       /\ IF r.json \in {"throw", "null"}
            THEN HotspotsCatch
            ELSE IF HotspotsAccepted(r)
              THEN IF MapThrows(r.list.items)
                     THEN HotspotsCatch
                     ELSE /\ SetHotspots(FormatHotspots(r.list.items))
                          /\ ReturnAfterSimSuccess
              ELSE FallbackToReal
  /\ UNCHANGED <<phase, statusVars, timerVars, eventVars, simRequests, realResp>>

\* await fetch('/hotspots/real') settles.
RealFetchSettles ==
  /\ hpc = "awaitReal"
  /\ \E net \in {"reject", "http", "ok"} :
       /\ realResp' = NetResp(net)
       /\ CASE net = "reject" -> HotspotsCatch
            [] net = "http" -> /\ hpc' = "done"
                               /\ hpromise' = "fulfilled"
                               /\ UNCHANGED <<stateCells, realRequests>>
            [] net = "ok" -> /\ hpc' = "awaitRealJson"
                             /\ UNCHANGED <<stateCells, hpromise, realRequests>>
  /\ UNCHANGED <<phase, statusVars, timerVars, eventVars, simRequests, simResp>>

\* await realResponse.json() settles.
RealJsonSettles ==
  /\ hpc = "awaitRealJson"
  /\ \E r \in HotspotBodies("real") :
       /\ realResp' = r
       /\ IF r.json \in {"throw", "null"}
            THEN HotspotsCatch
            ELSE IF HotspotsAccepted(r)
              THEN IF MapThrows(r.list.items)
                     THEN HotspotsCatch
                     ELSE /\ SetHotspots(FormatHotspots(r.list.items))
                          /\ hpc' = "done"
                          /\ hpromise' = "fulfilled"
                          /\ UNCHANGED realRequests
              ELSE /\ hpc' = "done"
                   /\ hpromise' = "fulfilled"
                   /\ UNCHANGED <<stateCells, realRequests>>
  /\ UNCHANGED <<phase, statusVars, timerVars, eventVars, simRequests, simResp>>

(* ---------------------------- specification ---------------------------- *)
EventsFetchStep == \E k \in PollIds : EventsFetchSettles(k)
EventsJsonStep == \E k \in PollIds : EventsJsonSettles(k)

Next ==
  \/ Mount
  \/ Tick
  \/ Advance
  \/ Unmount
  \/ StatusFetchSettles
  \/ StatusJsonSettles
  \/ EventsFetchStep
  \/ EventsJsonStep
  \/ SimFetchSettles
  \/ SimJsonSettles
  \/ RealFetchSettles
  \/ RealJsonSettles

Spec == Init /\ [][Next]_vars

(* ------------------------------ properties ----------------------------- *)
Max(S) == CHOOSE m \in S : \A x \in S : x <= m

\* A response as the caller of the API judges it: delivered, parsed, status
\* 'success', the list present and every element an object.
RespSucceeded(r) ==
  /\ r.net = "ok"
  /\ r.json = "obj"
  /\ r.status = "success"
  /\ r.list.defined
  /\ \A i \in 1..Len(r.list.items) : r.list.items[i].isObject

\* The simulated attempt failed in one of the ways the fallback order lists:
\* rejected fetch, HTTP non-ok, failed JSON parse, status other than
\* 'success', or no hotspots field.
SimAttemptFailed(r) ==
  \/ r.net \in {"reject", "http"}
  \/ r.json \in {"throw", "null"}
  \/ r.json = "obj" /\ (r.status # "success" \/ ~r.list.defined)

\* C1: whenever the simulated attempt has failed, in any of the listed ways,
\* the real-model endpoint has been requested.
C1_FallbackOnAnyFailure == SimAttemptFailed(simResp) => realRequests >= 1

\* h is the complete list of response r: one triple per hotspot, same order,
\* same count.
IsGridOf(h, r) ==
  /\ RespSucceeded(r)
  /\ Len(h) = Len(r.list.items)
  /\ \A i \in 1..Len(h) :
       /\ h[i][1] = r.list.items[i].latitude
       /\ h[i][2] = r.list.items[i].longitude
       /\ h[i][3] = r.list.items[i].prediction_value

\* C2: hotspots is empty or exactly the complete list of one single
\* successful response, simulated or real, never a part or a mixture.
C2_NeverPartialGrid ==
  \/ hotspots = <<>>
  \/ IsGridOf(hotspots, simResp)
  \/ IsGridOf(hotspots, realResp)

C2_Witness ==
  /\ hpc = "done"
  /\ simResp.net = "http"
  /\ RespSucceeded(realResp)
  /\ Len(hotspots) = MaxHotspots

\* C3: when fetchHotspots has finished and no request made succeeded, no
\* exception escaped it, hotspots is empty and no heatmap layer is rendered.
C3_TotalFailureEmpty ==
  (hpc = "done" /\ ~RespSucceeded(simResp) /\ ~RespSucceeded(realResp))
    => /\ hpromise = "fulfilled"
       /\ hotspots = <<>>
       /\ ~HeatmapRendered(hotspots)

C3_Witness ==
  /\ hpc = "done"
  /\ simResp.json = "obj" /\ simResp.status = "error" /\ simResp.list.defined
  /\ realResp.net = "reject"
  /\ hotspots = <<>>
  /\ hpromise = "fulfilled"

\* C4: the sidebar shows at most 10 cards, exactly the first min(10, n)
\* events in their order, and the placeholder exactly when there is no event.
C4_SidebarBounded ==
  LET view == Sidebar(liveEvents)
      n == Len(liveEvents)
  IN  /\ Len(view.cards) <= 10
      /\ Len(view.cards) = Min(10, n)
      /\ \A i \in 1..Len(view.cards) :
           /\ view.cards[i].key = liveEvents[i].id
           /\ view.cards[i].tag = liveEvents[i].tag_id
           /\ view.cards[i].text = liveEvents[i].event_trigger
      /\ view.placeholder <=> (n = 0)

C4_Witness ==
  /\ Len(liveEvents) > 10
  /\ Len(Sidebar(liveEvents).cards) = 10
  /\ Sidebar(liveEvents).cards[10].key = liveEvents[10].id

\* C5: one /events request is issued at the mount and one more per elapsed
\* 5-second period while mounted; after the unmount none is issued.
C5_PollingWhileMounted ==
  /\ [](phase = "mounted" =>
          evIssued = (IF now = nextFire THEN 0 ELSE 1) + (now \div 5000))
  /\ [][/\ (phase = "initial" /\ phase' = "mounted") => evIssued' = 1
        /\ (phase = "unmounted" \/ phase' = "unmounted") => evIssued' = evIssued]_vars

C5_Witness ==
  /\ phase = "unmounted"
  /\ evIssued = 2
  /\ now = nextFire
  /\ ~interval

\* C6: a step of fetchHotspots changes neither liveEvents nor apiStatus, a
\* step of event polling changes neither hotspots nor apiStatus, and a due
\* poll or a delivered /events response can be taken wherever fetchHotspots
\* stands.
C6_IndependentPaths ==
  /\ [][/\ (phase # "initial" /\ hotspotVars' # hotspotVars)
             => (liveEvents' = liveEvents /\ apiStatus' = apiStatus)
        /\ (phase # "initial" /\ eventVars' # eventVars)
             => (hotspots' = hotspots /\ apiStatus' = apiStatus)]_vars
  /\ []((interval /\ now = nextFire /\ evIssued < MaxTicks + 1) => ENABLED Tick)
  /\ [](\A k \in PollIds :
          /\ evPoll[k].pc = "fetching" => ENABLED EventsFetchSettles(k)
          /\ evPoll[k].pc = "parsing" => ENABLED EventsJsonSettles(k))

C6_Witness ==
  /\ hpc = "awaitSim"
  /\ hotspots = <<>>
  /\ evIssued = 2
  /\ evPoll[2].pc = "done"
  /\ liveEvents # <<>>

\* C7: each hotspot endpoint is requested at most once; the real endpoint
\* only after the simulated attempt ended without success, and never when
\* the simulated response is ok with status 'success' and a hotspots field.
C7_RealOnlyAfterSimFailure ==
  /\ simRequests <= 1
  /\ realRequests <= 1
  /\ realRequests >= 1 =>
       /\ hpc \notin {"idle", "awaitSim", "awaitSimJson"}
       /\ simResp.net = "http" \/ simResp.json = "obj"
       /\ ~(simResp.json = "obj" /\ simResp.status = "success" /\ simResp.list.defined)
  /\ (simResp.json = "obj" /\ simResp.status = "success" /\ simResp.list.defined)
       => realRequests = 0

C7_Witness ==
  /\ hpc = "done"
  /\ simResp.json = "obj" /\ simResp.status = "success"
  /\ simResp.list = Array(<<>>)
  /\ simRequests = 1
  /\ realRequests = 0

\* What a completed poll must leave in liveEvents: the events of a
\* successful response, the empty list after any other completion.
ExpectedEvents(r) ==
  IF r.net = "ok" /\ r.json = "obj" /\ r.status = "success" /\ r.list.defined
    THEN r.list.items
    ELSE <<>>

\* C8: the step that completes a poll sets liveEvents to the response's
\* events when the poll succeeded and to the empty list otherwise.
C8_PollResultApplied ==
  [][\A k \in PollIds :
       (evPoll[k].pc # "done" /\ evPoll'[k].pc = "done")
         => liveEvents' = ExpectedEvents(lastEvResp')]_vars

C8_Witness ==
  /\ evPoll[1].pc = "done" /\ evPoll[1].applied # <<>>
  /\ evPoll[2].pc = "done"
  /\ lastEvResp.net = "http"
  /\ liveEvents = <<>>

\* C9: liveEvents holds the value set by the most recently issued poll among
\* the completed ones.
C9_NewestIssuedWins ==
  LET done == {k \in PollIds : evPoll[k].pc = "done"}
  IN  done # {} => liveEvents = evPoll[Max(done)].applied

====
